---- MODULE Spec2Model ----
(***************************************************************************)
(* Model of kradix.go: a radix tree (trie) with a fixed fan-out per node,  *)
(* whose nodes are recycled through a sync.Pool.                           *)
(*                                                                         *)
(* Pointers are node identifiers; Nil is the nil pointer.  The heap is the *)
(* three functions terminal, value and edges over the node identifiers.    *)
(* Identifiers below nextId have been allocated by the pool's New; every   *)
(* allocated node is either linked in the tree or held in the pool.        *)
(***************************************************************************)
EXTENDS Integers, Sequences, FiniteSets, Bags, TLC

\* ---- bounds of the model ----
NumBytes == 2       \* key bytes used by Insert/Get/Delete: 0 .. NumBytes-1
MaxKeyLen == 2      \* longest key
MaxVal == 2         \* stored values: 1 .. MaxVal
MaxNodes == 3       \* nodes the allocator can hand out

\* ---- program constants ----
\* Every node has branchingFactor child slots.  The keys of the model use the
\* bytes below NumBytes (below threshold + 1 in the trees Traverse runs on), so
\* only those slots are ever read or written and only they are represented.
branchingFactor == 128

Nil == 0
Zero == 0           \* *new(T), the zero value of T

KeyBytes == 0 .. (NumBytes - 1)
Values == 1 .. MaxVal
NodeIds == 1 .. MaxNodes

RECURSIVE SeqsUpTo(_, _)
SeqsUpTo(S, n) ==
    IF n = 0 THEN {<< >>}
    ELSE LET shorter == SeqsUpTo(S, n - 1)
         IN shorter \cup {Append(s, b) : s \in {x \in shorter : Len(x) = n - 1}, b \in S}

Keys == SeqsUpTo(KeyBytes, MaxKeyLen)

\* the tree, its heap and pool; the last operation: its name, key, value and
\* result, whether it repeated the key of an Insert just before it (again),
\* and whether it ended in a run-time panic
VARIABLES root, terminal, value, edges, pool, nextId, last
\* a call of Traverse: the caller's position and its local n, the shared
\* slice stack (backing array and length), the WaitGroup counter, the done
\* channel, the position of the goroutine that waits on the WaitGroup, the
\* goroutines spawned to push children, and the calls of the visitor
VARIABLES tpc, cur, stackArr, stackLen, wg, done, wpc, workers, visited

heapVars == <<root, terminal, value, edges, pool, nextId>>
treeVars == <<root, terminal, value, edges, pool, nextId, last>>
travVars == <<tpc, cur, stackArr, stackLen, wg, done, wpc, workers, visited>>
vars == <<root, terminal, value, edges, pool, nextId, last,
          tpc, cur, stackArr, stackLen, wg, done, wpc, workers, visited>>

\* The tree and its heap as one record, the argument of the operators below.
Cur == [root |-> root, terminal |-> terminal, value |-> value,
        edges |-> edges, pool |-> pool, nextId |-> nextId]

\* &node[T]{} : the edges of a zeroed node
emptyEdges(width) == [c \in 0 .. (width - 1) |-> Nil]

\* New: the root is a freshly allocated zero node, the pool is empty.
New(ids, width) ==
    [root |-> 1,
     terminal |-> [n \in ids |-> FALSE],
     value |-> [n \in ids |-> Zero],
     edges |-> [n \in ids |-> emptyEdges(width)],
     pool |-> EmptyBag,
     nextId |-> 2]

\* t.pool.Get(): any node held in the pool, or a node allocated by the
\* pool's New function.  The result is the set of possible outcomes.
poolGet(st) ==
    {[st |-> [st EXCEPT !.pool = st.pool (-) SetToBag({p})], n |-> p] :
        p \in BagToSet(st.pool)}
    \cup
    (IF st.nextId \in DOMAIN st.terminal
     THEN {[st |-> [st EXCEPT !.nextId = st.nextId + 1], n |-> st.nextId]}
     ELSE {})

\* t.pool.Put(n)
poolPut(st, n) == [st EXCEPT !.pool = st.pool (+) SetToBag({n})]

\* a faulty store that forgets the terminal flag
insertStoreNoFlag(st, n, v) ==
    [st EXCEPT !.value[n] = v]

\* a faulty store that keeps the value of a key that is already stored
insertStoreKeepOld(st, n, v) ==
    IF st.terminal[n] THEN st
    ELSE [st EXCEPT !.terminal[n] = TRUE, !.value[n] = v]

\* insert, len(key) == 0: mark the node terminal and store the value.
insertStore(st, n, v) ==
    [st EXCEPT !.terminal[n] = TRUE, !.value[n] = v]

RECURSIVE insertAt(_, _, _, _)
\* insert on a non-nil node n; the set of possible [st, n] results.
insertAt(st, n, key, v) ==
    IF Len(key) = 0
    THEN {[st |-> insertStore(st, n, v), n |-> n]}
    ELSE LET c == Head(key)
             child == st.edges[n][c]
             got == IF child = Nil
                    THEN {[st |-> [g.st EXCEPT !.edges[n][c] = g.n], n |-> g.n] :
                             g \in poolGet(st)}
                    ELSE {[st |-> st, n |-> child]}
         IN UNION {{[st |-> [r.st EXCEPT !.edges[n][c] = r.n], n |-> n] :
                       r \in insertAt(g.st, g.n, Tail(key), v)} : g \in got}

\* insert: a nil n is replaced by a node from the pool.
insert(st, n, key, v) ==
    IF n = Nil
    THEN UNION {insertAt(g.st, g.n, key, v) : g \in poolGet(st)}
    ELSE insertAt(st, n, key, v)

\* Insert: t.root = t.insert(t.root, key, value)
InsertResults(st, key, v) ==
    {[r.st EXCEPT !.root = r.n] : r \in insert(st, st.root, key, v)}

RECURSIVE get(_, _, _)
get(st, n, key) ==
    IF n = Nil THEN Nil
    ELSE IF Len(key) = 0 THEN n
    ELSE get(st, st.edges[n][Head(key)], Tail(key))

Get(st, key) ==
    LET n == get(st, st.root, key)
    IN IF n = Nil THEN [value |-> Zero, found |-> FALSE]
       ELSE [value |-> st.value[n], found |-> st.terminal[n]]

isLeaf(st, n) == \A c \in DOMAIN st.edges[n] : st.edges[n][c] = Nil

hasChildren(st, n) == \E c \in DOMAIN st.edges[n] : st.edges[n][c] # Nil

RECURSIVE releaseFrom(_, _, _)
\* release: the loop over n.edges from index i on, then t.pool.Put(n).
releaseFrom(st, n, i) ==
    IF i \notin DOMAIN st.edges[n]
    THEN poolPut(st, n)
    ELSE IF st.edges[n][i] # Nil
         THEN LET s1 == releaseFrom(st, st.edges[n][i], 0)
              IN releaseFrom([s1 EXCEPT !.edges[n][i] = Nil], n, i + 1)
         ELSE releaseFrom(st, n, i + 1)

\* a faulty release whose caller keeps its reference to the released node
releaseKeepRef(st, n) == [st |-> releaseFrom(st, n, 0), n |-> n]

\* release returns nil
release(st, n) == [st |-> releaseFrom(st, n, 0), n |-> Nil]

\* a faulty delete that reports success and leaves the node as it is
deleteHereKeep(st, n) ==
    [st |-> st, n |-> n, deleted |-> TRUE]

\* delete, len(key) == 0
deleteHere(st, n) ==
    LET s1 == [st EXCEPT !.terminal[n] = FALSE, !.value[n] = Zero]
        r == release(s1, n)
    IN [st |-> r.st, n |-> r.n, deleted |-> TRUE]

\* a faulty pruning condition that does not look at the terminal flag
pruneCondAnyLeaf(st, n, deleted) == isLeaf(st, n) /\ ~deleted

\* the condition of the pruning step on the way back up
pruneCond(st, n, deleted) == ~st.terminal[n] /\ isLeaf(st, n) /\ ~deleted

RECURSIVE delete(_, _, _, _)
delete(st, n, key, deleted) ==
    IF n = Nil THEN [st |-> st, n |-> Nil, deleted |-> deleted]
    ELSE IF Len(key) = 0 THEN deleteHere(st, n)
    ELSE LET c == Head(key)
             r == delete(st, st.edges[n][c], Tail(key), deleted)
             s1 == [r.st EXCEPT !.edges[n][c] = r.n]
         IN IF pruneCond(s1, n, r.deleted)
            THEN LET q == release(s1, n)
                 IN [st |-> q.st, n |-> q.n, deleted |-> TRUE]
            ELSE [st |-> s1, n |-> n, deleted |-> r.deleted]

\* Delete: t.root = t.delete(t.root, key, &deleted); return deleted
DeleteResult(st, key) ==
    LET r == delete(st, st.root, key, FALSE)
    IN [st |-> [r.st EXCEPT !.root = r.n], deleted |-> r.deleted]

\* ---- the state machine of the mutation engine ----

\* no call of Traverse is in progress
TravIdle ==
    /\ tpc = "idle"
    /\ cur = Nil
    /\ stackArr = << >>
    /\ stackLen = 0
    /\ wg = 0
    /\ done = FALSE
    /\ wpc = "none"
    /\ workers = << >>
    /\ visited = << >>

InitTree(st) ==
    /\ root = st.root
    /\ terminal = st.terminal
    /\ value = st.value
    /\ edges = st.edges
    /\ pool = st.pool
    /\ nextId = st.nextId
    /\ last = [op |-> "New", key |-> << >>, val |-> Zero, ret |-> FALSE,
               again |-> FALSE, panic |-> FALSE]

Init ==
    /\ InitTree(New(NodeIds, NumBytes))
    /\ TravIdle

Install(st) ==
    /\ root' = st.root
    /\ terminal' = st.terminal
    /\ value' = st.value
    /\ edges' = st.edges
    /\ pool' = st.pool
    /\ nextId' = st.nextId

Insert ==
    \E k \in Keys, v \in Values :
        \E st \in InsertResults(Cur, k, v) :
            /\ Install(st)
            /\ last' = [op |-> "Insert", key |-> k, val |-> v, ret |-> FALSE,
                        again |-> (last.op = "Insert" /\ last.key = k),
                        panic |-> FALSE]
            /\ UNCHANGED travVars

GetOp ==
    \E k \in Keys :
        LET g == Get(Cur, k)
        IN /\ last' = [op |-> "Get", key |-> k, val |-> g.value, ret |-> g.found,
                       again |-> FALSE, panic |-> FALSE]
           /\ UNCHANGED heapVars
           /\ UNCHANGED travVars

Delete ==
    \E k \in Keys :
        LET r == DeleteResult(Cur, k)
        IN /\ Install(r.st)
           /\ last' = [op |-> "Delete", key |-> k, val |-> Zero, ret |-> r.deleted,
                       again |-> FALSE, panic |-> FALSE]
           /\ UNCHANGED travVars

Next == Insert \/ GetOp \/ Delete

Spec == Init /\ [][Next]_vars

\* ---- key bytes outside the child array ----

\* A key is a Go string: its bytes are not limited to the indices of edges.
\* AllBytes adds the first byte value that is no index of
\* [branchingFactor]*node[T].
AllBytes == KeyBytes \cup {branchingFactor}

ByteKeys == SeqsUpTo(AllBytes, MaxKeyLen)

\* n.edges[c]: the bounds check of an array of branchingFactor elements
indexPanics(c) == c >= branchingFactor

\* insert never returns before it indexes n.edges with key[0]: n is replaced
\* by a pool node when it is nil
RECURSIVE insertPanics(_)
insertPanics(key) ==
    IF Len(key) = 0 THEN FALSE
    ELSE IF indexPanics(Head(key)) THEN TRUE
    ELSE insertPanics(Tail(key))

\* a faulty walk that rejects every key holding a byte that is no index
walkPanicsAnyByte(st, n, key) ==
    \E i \in DOMAIN key : indexPanics(key[i])

RECURSIVE walkPanics(_, _, _)
\* get and delete return on a nil node and on the empty key before they
\* index n.edges with key[0]
walkPanics(st, n, key) ==
    IF n = Nil THEN FALSE
    ELSE IF Len(key) = 0 THEN FALSE
    ELSE IF indexPanics(Head(key)) THEN TRUE
    ELSE walkPanics(st, st.edges[n][Head(key)], Tail(key))

\* the record of an operation that ended in a panic
Panicked(op, k, v) ==
    [op |-> op, key |-> k, val |-> v, ret |-> FALSE,
     again |-> FALSE, panic |-> TRUE]

\* Insert of a key that holds a byte that is no index: the panic of the
\* bounds check ends the program
InsertHigh ==
    /\ ~last.panic
    /\ \E k \in ByteKeys \ Keys, v \in Values :
          /\ insertPanics(k)
          /\ last' = Panicked("Insert", k, v)
    /\ UNCHANGED heapVars
    /\ UNCHANGED travVars

\* Get of such a key: a panic, or not found when the walk ends on a nil node
\* before it comes to the byte
GetHigh ==
    /\ ~last.panic
    /\ \E k \in ByteKeys \ Keys :
          IF walkPanics(Cur, root, k)
          THEN last' = Panicked("Get", k, Zero)
          ELSE LET g == Get(Cur, k)
               IN last' = [op |-> "Get", key |-> k, val |-> g.value,
                           ret |-> g.found, again |-> FALSE, panic |-> FALSE]
    /\ UNCHANGED heapVars
    /\ UNCHANGED travVars

\* Delete of such a key: the panic happens on the way down, before any write;
\* without it the walk ends on a nil node and the pruning step runs on the
\* way back
DeleteHigh ==
    /\ ~last.panic
    /\ \E k \in ByteKeys \ Keys :
          IF walkPanics(Cur, root, k)
          THEN /\ last' = Panicked("Delete", k, Zero)
               /\ UNCHANGED heapVars
          ELSE LET r == DeleteResult(Cur, k)
               IN /\ Install(r.st)
                  /\ last' = [op |-> "Delete", key |-> k, val |-> Zero,
                              ret |-> r.deleted, again |-> FALSE, panic |-> FALSE]
    /\ UNCHANGED travVars

ByteNext ==
    \/ ~last.panic /\ Insert
    \/ ~last.panic /\ GetOp
    \/ ~last.panic /\ Delete
    \/ InsertHigh
    \/ GetHigh
    \/ DeleteHigh

ByteSpec == Init /\ [][ByteNext]_vars

\* ---- Traverse ----

threshold == 10

\* The trees Traverse is run on: the results of short sequences of Insert
\* and Delete on a new tree, and the tree in which the root has more than
\* threshold children.
MaxScript == 2

\* the goroutines one call of Traverse may spawn: a stale write of the shared
\* stack can make the caller pop a node again and again
MaxWorkers == 2

Max(a, b) == IF a >= b THEN a ELSE b

TravWidth == Max(NumBytes, threshold + 1)
TravIds == 1 .. Max(threshold + 2, 1 + MaxScript * MaxKeyLen)

ScriptOps == [ins : BOOLEAN, key : Keys]

WideScript == [i \in 1 .. (threshold + 1) |-> [ins |-> TRUE, key |-> <<i - 1>>]]

Scripts == UNION {[1 .. n -> ScriptOps] : n \in 0 .. MaxScript} \cup {WideScript}

\* the i-th operation of a script; an Insert stores the value i
Apply(st, o, i) ==
    IF o.ins THEN InsertResults(st, o.key, i)
    ELSE {DeleteResult(st, o.key).st}

RECURSIVE RunScript(_, _, _)
RunScript(states, script, i) ==
    IF i > Len(script) THEN states
    ELSE RunScript(UNION {Apply(st, script[i], i) : st \in states}, script, i + 1)

TravTrees == UNION {RunScript({New(TravIds, TravWidth)}, sc, 1) : sc \in Scripts}

\* the non-nil children of n in index order (lines 159-166)
RECURSIVE childrenFrom(_, _, _)
childrenFrom(st, n, i) ==
    IF i \notin DOMAIN st.edges[n] THEN << >>
    ELSE IF st.edges[n][i] # Nil
         THEN <<st.edges[n][i]>> \o childrenFrom(st, n, i + 1)
         ELSE childrenFrom(st, n, i + 1)

\* the first index i with n.edges[i] == target, or -1
RECURSIVE edgeIndex(_, _, _, _)
edgeIndex(st, n, target, i) ==
    IF i \notin DOMAIN st.edges[n] THEN -1
    ELSE IF st.edges[n][i] = target THEN i
    ELSE edgeIndex(st, n, target, i + 1)

RECURSIVE prefixFrom(_, _, _, _)
\* the loop of prefix over stack[1:], from slice index j (1-based j + 1) on
prefixFrom(st, arr, len, j) ==
    IF j > len THEN << >>
    ELSE LET i == edgeIndex(st, arr[j], arr[len], 0)
         IN (IF i = -1 THEN << >> ELSE <<i>>) \o prefixFrom(st, arr, len, j + 1)

\* prefix(stack): stack[1:] is out of range for an empty stack, and n.edges
\* dereferences each element of stack[1:]
prefixPanics(arr, len) ==
    len = 0 \/ \E j \in 2 .. len : arr[j] = Nil

prefix(st, arr, len) == prefixFrom(st, arr, len, 2)

Running == tpc # "panic"

\* lines 134-141: the locals, and the goroutine that waits and closes done
TravStart ==
    /\ tpc = "idle"
    /\ tpc' = "add"
    /\ wpc' = "wait"
    /\ UNCHANGED <<cur, stackArr, stackLen, wg, done, workers, visited>>
    /\ UNCHANGED treeVars

\* lines 143-144; no other goroutine touches the stack yet
MainAdd ==
    /\ tpc = "add"
    /\ wg' = wg + 1
    /\ stackArr' = <<root>>
    /\ stackLen' = 1
    /\ tpc' = "loop"
    /\ UNCHANGED <<cur, done, wpc, workers, visited>>
    /\ UNCHANGED treeVars

\* lines 146-152: the loop test and the pop
MainPop ==
    /\ tpc = "loop"
    /\ IF stackLen > 0
       THEN /\ stackLen' = stackLen - 1
            /\ IF stackArr[stackLen] = Nil
               THEN tpc' = "loop" /\ cur' = cur
               ELSE tpc' = "visit" /\ cur' = stackArr[stackLen]
       ELSE /\ tpc' = "done"
            /\ UNCHANGED <<cur, stackLen>>
    /\ UNCHANGED <<stackArr, wg, done, wpc, workers, visited>>
    /\ UNCHANGED treeVars

\* lines 154-156
MainVisit ==
    /\ tpc = "visit"
    /\ IF terminal[cur]
       THEN IF prefixPanics(stackArr, stackLen)
            THEN tpc' = "panic" /\ visited' = visited
            ELSE /\ visited' = Append(visited,
                        [node |-> cur,
                         key |-> prefix(Cur, stackArr, stackLen),
                         val |-> value[cur]])
                 /\ tpc' = "children"
       ELSE tpc' = "children" /\ visited' = visited
    /\ UNCHANGED <<cur, stackArr, stackLen, wg, done, wpc, workers>>
    /\ UNCHANGED treeVars

\* lines 158-180, up to the call of wg.Wait
MainChildren ==
    /\ tpc = "children"
    /\ hasChildren(Cur, cur) => Len(workers) < MaxWorkers
    /\ IF hasChildren(Cur, cur)
       THEN LET children == childrenFrom(Cur, cur, 0)
            IN /\ wg' = wg + 1
               /\ workers' = Append(workers,
                      [children |-> children, i |-> 1, l |-> -1, fin |-> FALSE])
               /\ tpc' = IF Len(children) > threshold THEN "wgwait" ELSE "loop"
       ELSE /\ tpc' = "loop"
            /\ UNCHANGED <<wg, workers>>
    /\ UNCHANGED <<cur, stackArr, stackLen, done, wpc, visited>>
    /\ UNCHANGED treeVars

\* wg.Wait returns once the counter is zero: line 139 in the waiting
\* goroutine, line 178 in the caller
WgWaitReturn ==
    /\ Running
    /\ wg = 0
    /\ \/ /\ wpc = "wait"
          /\ wpc' = "close"
          /\ tpc' = tpc
       \/ /\ tpc = "wgwait"
          /\ tpc' = "loop"
          /\ wpc' = wpc
    /\ UNCHANGED <<cur, stackArr, stackLen, wg, done, workers, visited>>
    /\ UNCHANGED treeVars

\* line 140
WaiterClose ==
    /\ Running
    /\ wpc = "close"
    /\ done' = TRUE
    /\ wpc' = "exit"
    /\ UNCHANGED <<tpc, cur, stackArr, stackLen, wg, workers, visited>>
    /\ UNCHANGED treeVars

\* line 170, first half: the goroutine reads the slice header of stack
WorkerLoad(w) ==
    /\ Running
    /\ ~workers[w].fin
    /\ workers[w].i <= Len(workers[w].children)
    /\ workers[w].l = -1
    /\ workers' = [workers EXCEPT ![w].l = stackLen]
    /\ UNCHANGED <<tpc, cur, stackArr, stackLen, wg, done, wpc, visited>>
    /\ UNCHANGED treeVars

\* line 170, second half: it stores the child behind the length it read and
\* writes the new header back
WorkerStore(w) ==
    /\ Running
    /\ workers[w].l # -1
    /\ LET l == workers[w].l
           child == workers[w].children[workers[w].i]
       IN /\ stackArr' = IF l + 1 <= Len(stackArr)
                         THEN [stackArr EXCEPT ![l + 1] = child]
                         ELSE Append(stackArr, child)
          /\ stackLen' = l + 1
    /\ workers' = [workers EXCEPT ![w].i = @ + 1, ![w].l = -1]
    /\ UNCHANGED <<tpc, cur, wg, done, wpc, visited>>
    /\ UNCHANGED treeVars

\* line 172
WorkerDone(w) ==
    /\ Running
    /\ ~workers[w].fin
    /\ workers[w].i > Len(workers[w].children)
    /\ wg' = wg - 1
    /\ workers' = [workers EXCEPT ![w].fin = TRUE]
    /\ UNCHANGED <<tpc, cur, stackArr, stackLen, done, wpc, visited>>
    /\ UNCHANGED treeVars

\* line 183
MainDone ==
    /\ tpc = "done"
    /\ wg' = wg - 1
    /\ tpc' = "recv"
    /\ UNCHANGED <<cur, stackArr, stackLen, done, wpc, workers, visited>>
    /\ UNCHANGED treeVars

\* line 184
MainRecv ==
    /\ tpc = "recv"
    /\ done
    /\ tpc' = "returned"
    /\ UNCHANGED <<cur, stackArr, stackLen, wg, done, wpc, workers, visited>>
    /\ UNCHANGED treeVars

TravInit ==
    /\ \E st \in TravTrees : InitTree(st)
    /\ TravIdle

TravNext ==
    \/ TravStart
    \/ MainAdd
    \/ MainPop
    \/ MainVisit
    \/ MainChildren
    \/ WgWaitReturn
    \/ WaiterClose
    \/ \E w \in DOMAIN workers : WorkerLoad(w)
    \/ \E w \in DOMAIN workers : WorkerStore(w)
    \/ \E w \in DOMAIN workers : WorkerDone(w)
    \/ MainDone
    \/ MainRecv

TravSpec == TravInit /\ [][TravNext]_vars

\* ---- helpers of the properties ----

IsPrefix(p, k) == Len(p) <= Len(k) /\ SubSeq(k, 1, Len(p)) = p

IsProperPrefix(p, k) == IsPrefix(p, k) /\ p # k

childrenOf(st, S) ==
    UNION {{st.edges[n][c] : c \in DOMAIN st.edges[n]} : n \in S} \ {Nil}

RECURSIVE closure(_, _)
closure(st, S) ==
    LET S2 == S \cup childrenOf(st, S)
    IN IF S2 = S THEN S ELSE closure(st, S2)

\* the nodes reachable from the root
Reach(st) == IF st.root = Nil THEN {} ELSE closure(st, {st.root})

\* ---- C1 ----
\* C1: round trip.  Right after Insert(k, v), in whatever state the tree was
\* and whatever nodes the pool handed out, Get(k) returns (v, true).
C1_RoundTrip ==
    last.op = "Insert" =>
        Get(Cur, last.key) = [value |-> last.val, found |-> TRUE]

\* An Insert of a two-byte key completed on a tree whose root is a recycled node.
C1_Witness ==
    /\ last.op = "Insert"
    /\ Len(last.key) = 2
    /\ root \notin {Nil, 1}
    /\ Get(Cur, last.key).found

\* ---- C2 ----
\* C2: Delete(k) keeps every stored key that has k as a proper prefix
\* retrievable with its value.
C2_ExtensionsSurvive ==
    [][\A k2 \in Keys :
          (last'.op = "Delete" /\ IsProperPrefix(last'.key, k2) /\ Get(Cur, k2).found)
              => Get(Cur, k2)' = Get(Cur, k2)]_vars

\* ---- C3 ----
\* C3: prefix independence.  Delete(k) keeps every stored key that is not an
\* extension of k (a proper prefix of k or a key diverging from k) retrievable
\* with its value.
C3_PrefixIndependence ==
    [][\A k2 \in Keys :
          (last'.op = "Delete" /\ ~IsPrefix(last'.key, k2) /\ Get(Cur, k2).found)
              => Get(Cur, k2)' = Get(Cur, k2)]_vars

\* A two-byte key has been deleted and its one-byte prefix is still stored.
C3_Witness ==
    /\ last.op = "Delete"
    /\ last.ret
    /\ Len(last.key) = 2
    /\ Get(Cur, <<last.key[1]>>).found
    /\ ~Get(Cur, last.key).found

\* ---- C4 ----
\* C4: Delete(k) returns true if and only if k was stored as a terminal key
\* immediately before the call.
C4_DeleteReturn ==
    [][last'.op = "Delete" => (last'.ret <=> Get(Cur, last'.key).found)]_vars

\* ---- C5 ----
\* C5: Delete(k) of a key that is not stored returns false and leaves the
\* tree as it was: same root, same reachable nodes, same flags, values and edges.
C5_IdempotentDelete ==
    [][(last'.op = "Delete" /\ ~Get(Cur, last'.key).found) =>
          /\ ~last'.ret
          /\ root' = root
          /\ Reach(Cur)' = Reach(Cur)
          /\ \A n \in Reach(Cur) :
                /\ terminal'[n] = terminal[n]
                /\ value'[n] = value[n]
                /\ edges'[n] = edges[n]]_vars

\* ---- C6 ----
\* C6: after Delete(k) has returned, Get(k) reports found = false.
C6_DeletedNotFound ==
    last.op = "Delete" => ~Get(Cur, last.key).found

\* A Delete has reported success while other nodes stay in the tree.
C6_Witness ==
    /\ last.op = "Delete"
    /\ last.ret
    /\ Len(last.key) = 1
    /\ root # Nil
    /\ hasChildren(Cur, root)
    /\ ~Get(Cur, last.key).found

\* ---- C7 ----
\* C7: no phantom keys.  A key becomes retrievable only by its own Insert: a
\* key that was not found before a step and is found after it is the key that
\* step inserted.
C7_NoPhantomKeys ==
    [][\A k \in Keys :
          (Get(Cur, k)'.found /\ ~Get(Cur, k).found)
              => (last'.op = "Insert" /\ last'.key = k)]_vars

\* ---- C8 ----
\* C8: pruning invariant.  After every completed operation no node other than
\* the root is reachable that is both non-terminal and without children.
C8_Pruned ==
    \A n \in Reach(Cur) \ {root} : terminal[n] \/ hasChildren(Cur, n)

\* ---- C9 ----
\* C9: the root always exists: the root reference is never nil, it is still
\* the node New allocated, and that node is not in the pool.
C9_RootExists ==
    /\ root # Nil
    /\ root = 1
    /\ ~BagIn(1, pool)

\* ---- C10 ----
VisitCount(n) == Cardinality({i \in DOMAIN visited : visited[i].node = n})

\* C10: traversal coverage.  When Traverse has returned, the visitor has been
\* called exactly once for every terminal node reachable from the root and
\* never for another node.
C10_TraversalCoverage ==
    tpc = "returned" =>
        /\ \A n \in Reach(Cur) : terminal[n] => VisitCount(n) = 1
        /\ \A i \in DOMAIN visited :
              visited[i].node \in Reach(Cur) /\ terminal[visited[i].node]

\* ---- C11 ----
\* C11: key reconstruction.  Every call of the visitor receives the sequence
\* of edge indices that leads from the root to the visited node, and the
\* value stored in that node.
C11_KeyReconstruction ==
    \A i \in DOMAIN visited :
        /\ get(Cur, root, visited[i].key) = visited[i].node
        /\ visited[i].val = value[visited[i].node]

\* ---- C12 ----
\* the scheduler lets every goroutine that can take a step take one
TravFairness ==
    /\ WF_vars(TravStart)
    /\ WF_vars(MainAdd)
    /\ WF_vars(MainPop)
    /\ WF_vars(MainVisit)
    /\ WF_vars(MainChildren)
    /\ WF_vars(WgWaitReturn)
    /\ WF_vars(WaiterClose)
    /\ \A w \in 1 .. MaxWorkers :
          /\ WF_vars(w \in DOMAIN workers /\ WorkerLoad(w))
          /\ WF_vars(w \in DOMAIN workers /\ WorkerStore(w))
          /\ WF_vars(w \in DOMAIN workers /\ WorkerDone(w))
    /\ WF_vars(MainDone)
    /\ WF_vars(MainRecv)

TravFairSpec == TravSpec /\ TravFairness

\* the caller is about to spawn one goroutine more than MaxWorkers
WorkersExhausted ==
    /\ tpc = "children"
    /\ hasChildren(Cur, cur)
    /\ Len(workers) >= MaxWorkers

\* C12: termination.  Under fair scheduling every call of Traverse comes to
\* an end: it returns (runs that end in a panic, and runs that would need
\* more than MaxWorkers goroutines, are left aside).
C12_TraverseReturns ==
    <>(tpc = "returned" \/ tpc = "panic" \/ WorkersExhausted)

\* ---- C13 ----
\* C13: completion barrier.  When Traverse has returned, every goroutine it
\* spawned for the children of a node has finished.
C13_CompletionBarrier ==
    tpc = "returned" => \A w \in DOMAIN workers : workers[w].fin

\* ---- C14 ----
\* goroutine w is at line 170, about to read or write the stack
WorkerAtStack(w) ==
    ~workers[w].fin /\ workers[w].i <= Len(workers[w].children)

\* the caller is at a statement that reads or writes the stack: the loop test
\* and the pop, or the call of prefix(stack)
MainAtStack ==
    \/ tpc = "loop"
    \/ tpc = "visit" /\ terminal[cur]

\* C14: no data race on the stack.  No goroutine is about to write the stack
\* while the caller or another goroutine is about to access it with nothing
\* ordering the two accesses.
C14_StackPrivate ==
    \A w \in DOMAIN workers :
        WorkerAtStack(w) =>
            /\ ~MainAtStack
            /\ \A x \in DOMAIN workers \ {w} : ~WorkerAtStack(x)

\* ---- C15 ----
\* C15: totality.  No call of Traverse ends in a run-time panic (an index out
\* of range or a nil dereference in prefix).
C15_NoPanic ==
    tpc # "panic"

\* ---- C16 ----
\* C16: overwrite.  An Insert(k, v2) that follows an Insert(k, v1) leaves
\* Get(k) = (v2, true), takes no node from the pool and allocates none, keeps
\* the set of reachable nodes, and leaves Get(k2) as it was for every other
\* key k2.
C16_Overwrite ==
    [][(last'.op = "Insert" /\ last'.again) =>
          /\ (Get(Cur, last.key) = [value |-> last.val, found |-> TRUE])'
          /\ nextId' = nextId
          /\ pool' = pool
          /\ Reach(Cur)' = Reach(Cur)
          /\ \A k2 \in Keys \ {last'.key} : Get(Cur, k2)' = Get(Cur, k2)]_vars

\* A two-byte key was inserted twice in a row, the second time with the value
\* 2, next to another stored key.
C16_Witness ==
    /\ last.op = "Insert"
    /\ last.again
    /\ Len(last.key) = 2
    /\ last.val = 2
    /\ Get(Cur, last.key) = [value |-> 2, found |-> TRUE]
    /\ \E k2 \in Keys \ {last.key} : Get(Cur, k2).found

\* ---- C17 ----
\* a node as &node[T]{} makes it
IsReset(st, n) ==
    ~st.terminal[n] /\ st.value[n] = Zero /\ isLeaf(st, n)

\* C17: acquire returns a reset node.  Every node the pool can hand to insert,
\* newly allocated or released before, is non-terminal, holds the zero value
\* and has no child.
C17_AcquireReset ==
    \A g \in poolGet(Cur) : IsReset(Cur, g.n)

\* ---- C18 ----
\* the edges of reachable nodes that point to n
InEdges(st, n) ==
    UNION {{<<m, c>> : c \in {x \in DOMAIN st.edges[m] : st.edges[m][x] = n}} :
              m \in Reach(st)}

\* C18: pool and tree are disjoint.  After every operation no reachable node
\* is in the pool, no node is in the pool twice, and every reachable node is
\* reached by exactly one path: the root by no edge, any other node by one.
C18_PoolTreeDisjoint ==
    /\ \A n \in Reach(Cur) : ~BagIn(n, pool)
    /\ \A n \in BagToSet(pool) : CopiesIn(n, pool) = 1
    /\ \A n \in Reach(Cur) :
          Cardinality(InEdges(Cur, n)) = (IF n = root THEN 0 ELSE 1)

\* A Delete has released a node into the pool while the root keeps a child.
C18_Witness ==
    /\ last.op = "Delete"
    /\ last.ret
    /\ pool # EmptyBag
    /\ root # Nil
    /\ hasChildren(Cur, root)

\* ---- C19 ----
\* C19: threshold-gated fan-out.  Traverse spawns a goroutine for the children
\* of a node only if the node has more than threshold children.
C19_FanOutGated ==
    \A w \in DOMAIN workers : Len(workers[w].children) > threshold

\* ---- C20 ----
\* the operation comes, at a node that exists, to a key byte that is no index
\* of the child array: the bytes before it are indices, and for Get and
\* Delete the node they lead to is in the tree (Insert creates it)
ReachesHighByte(st, op, key) ==
    \E i \in DOMAIN key :
        /\ key[i] >= branchingFactor
        /\ \A j \in 1 .. (i - 1) : key[j] < branchingFactor
        /\ op = "Insert" \/ get(st, st.root, SubSeq(key, 1, i - 1)) # Nil

\* C20: fan-out width boundary.  Insert, Get and Delete index the child array
\* out of range exactly when they come, at a node that exists, to a key byte
\* at or above branchingFactor; keys of bytes below it never do.
C20_WidthBoundary ==
    [][last'.op \in {"Insert", "Get", "Delete"} =>
          (last'.panic <=> ReachesHighByte(Cur, last'.op, last'.key))]_vars

\* A Get has walked an existing edge and then indexed out of range.
C20_Witness ==
    /\ last.op = "Get"
    /\ last.panic
    /\ Len(last.key) = 2
    /\ last.key[1] < branchingFactor
    /\ last.key[2] >= branchingFactor
    /\ get(Cur, root, <<last.key[1]>>) # Nil

====
